---- MODULE Spec2Model ----
(***************************************************************************)
(* Model of the audit orchestration core of lighthouse-automation:         *)
(* LighthouseRunner.run / runBatch (src/src/utils/lighthouse-runner.ts),   *)
(* CookieManager (src/src/utils/cookie-manager.ts), the threshold helpers  *)
(* of src/src/types/config.ts and the per-route deadline configured by     *)
(* loadConfig (src/src/fixtures/lighthouse-fixture.ts).                    *)
(*                                                                         *)
(* JavaScript runs one task at a time: the code between two awaits is      *)
(* atomic.  Every action below is one such segment: the settlement of the  *)
(* awaited call (its outcome drawn from the outcomes the collaborator can  *)
(* produce) followed by everything run() does up to its next await.        *)
(***************************************************************************)
EXTENDS Integers, Sequences, FiniteSets, TLC

\* ------------------------------------------------------------------ bounds
NumRoutes == 2
NumPorts == 2
MaxCookies == 2

Runs == 1..NumRoutes
Ports == 1..NumPorts

\* --------------------------------------------------------- JS value helpers
\* undefined of JavaScript where a string is expected
Undefined == "undefined"
\* undefined and null of JavaScript where a number is expected
UndefinedNum == 0 - 1
Null == 0 - 2

Categories == {"performance", "accessibility", "best-practices", "seo"}

\* `a ?? b` of JavaScript
Coalesce(a, b) == IF a = UndefinedNum \/ a = Null THEN b ELSE a

\* ToNumber of a score that is a number or null
ToNumber(v) == IF v = Null THEN 0 ELSE v

EndsWith(s, suffix) ==
  /\ Len(suffix) <= Len(s)
  /\ SubSeq(s, Len(s) - Len(suffix) + 1, Len(s)) = suffix

\* --------------------------------------------------------------- config.ts
DefaultPerformance == 25
DefaultOther == 50

NoThresholds == [c \in Categories |-> UndefinedNum]

BuiltInDefault(c) == IF c = "performance" THEN DefaultPerformance ELSE DefaultOther

\* `a || b` of JavaScript on numbers: 0 is falsy
CoalesceOr(a, b) == IF a = UndefinedNum \/ a = Null \/ a = 0 THEN b ELSE a

\* the merge written with || in place of ??
getRouteThresholdsOr(globalThresholds, routeThresholds) ==
  [c \in Categories |->
     CoalesceOr(routeThresholds[c], CoalesceOr(globalThresholds[c], BuiltInDefault(c)))]

getRouteThresholds(globalThresholds, routeThresholds) ==
  [c \in Categories |->
     Coalesce(routeThresholds[c], Coalesce(globalThresholds[c], BuiltInDefault(c)))]

\* sameSite values are sequences of one-character strings; NoSameSite is
\* the undefined of a cookie that has no sameSite
NoSameSite == <<Undefined>>

UpperCase ==
  <<"A", "B", "C", "D", "E", "F", "G", "H", "I", "J", "K", "L", "M",
    "N", "O", "P", "Q", "R", "S", "T", "U", "V", "W", "X", "Y", "Z">>
LowerCase ==
  <<"a", "b", "c", "d", "e", "f", "g", "h", "i", "j", "k", "l", "m",
    "n", "o", "p", "q", "r", "s", "t", "u", "v", "w", "x", "y", "z">>

\* String.prototype.toLowerCase
toLowerCase(s) ==
  [i \in 1..Len(s) |->
     IF \E k \in 1..Len(UpperCase) : UpperCase[k] = s[i]
       THEN LowerCase[CHOOSE k \in 1..Len(UpperCase) : UpperCase[k] = s[i]]
       ELSE s[i]]

Strict == <<"S", "t", "r", "i", "c", "t">>
Lax == <<"L", "a", "x">>
None == <<"N", "o", "n", "e">>

\* a normalization that compares without lower-casing
normalizeSameSiteCaseSensitive(sameSite) ==
  IF sameSite = NoSameSite \/ sameSite = <<>> THEN Lax
  ELSE IF sameSite = <<"s", "t", "r", "i", "c", "t">> THEN Strict
  ELSE IF sameSite = <<"l", "a", "x">> THEN Lax
  ELSE IF sameSite = <<"n", "o", "n", "e">> \/ sameSite = <<"n", "o", "_", "r", "e", "s", "t", "r", "i", "c", "t", "i", "o", "n">> THEN None
  ELSE Lax

normalizeSameSite(sameSite) ==
  IF sameSite = NoSameSite \/ sameSite = <<>> THEN Lax
  ELSE LET lower == toLowerCase(sameSite) IN
       IF lower = <<"s", "t", "r", "i", "c", "t">> THEN Strict
       ELSE IF lower = <<"l", "a", "x">> THEN Lax
       ELSE IF lower = <<"n", "o", "n", "e">> \/ lower = <<"n", "o", "_", "r", "e", "s", "t", "r", "i", "c", "t", "i", "o", "n">> THEN None
       ELSE Lax

\* ---------------------------------------------------------- cookie-manager
\* Domains are sequences of one-character strings.
TargetDomain == <<"e", "x", ".", "c", "o">>
OtherDomain == <<".", "o", "t", ".", "c", "o">>

StoredCookies ==
  << [name |-> "session", domain |-> <<".">> \o TargetDomain, sameSite |-> <<"n", "o", "_", "r", "e", "s", "t", "r", "i", "c", "t", "i", "o", "n">>],
     [name |-> "tracker", domain |-> OtherDomain, sameSite |-> NoSameSite] >>

\* What fs.existsSync / readFileSync / JSON.parse find at the auth file path.
FileStates == {"missing", "badjson", "noarray", "empty", "cookies"}

FileCookies(fileState) == IF fileState = "cookies" THEN StoredCookies ELSE <<>>

\* loadFromFile: TRUE when it returns, FALSE when it throws
loadFromFile(fileState) == fileState \in {"empty", "cookies"}

\* an emptiness check that never fires
isEmptyNever(cookies) == FALSE

isEmpty(cookies) == Len(cookies) = 0

getNormalized(cookies) ==
  [i \in 1..Len(cookies) |->
     [cookies[i] EXCEPT !.sameSite = normalizeSameSite(cookies[i].sameSite)]]

asPlaywrightCookies(cookies) == getNormalized(cookies)

\* a match that leaves out the leading-dot form
\* the undefined of a cookie that has no domain
NoDomain == <<Undefined>>

\* a domain taken as it is stored
DomainAsStored(domain) == domain

\* cookie.domain || ''
DomainOrEmpty(domain) == IF domain = NoDomain THEN <<>> ELSE domain

DomainMatchesNoDot(cookieDomain, domain) ==
  \/ cookieDomain = domain
  \/ EndsWith(domain, cookieDomain)

DomainMatches(cookieDomain, domain) ==
  \/ cookieDomain = domain
  \/ cookieDomain = <<".">> \o domain
  \/ EndsWith(domain, cookieDomain)

Range(s) == {s[i] : i \in 1..Len(s)}

\* getByDomain: the normalized cookies whose domain matches; a cookie
\* without domain counts as the empty domain (cookie.domain || '')
getByDomain(cookies, domain) ==
  LET matches(cookie) == DomainMatches(DomainOrEmpty(cookie.domain), domain)
  IN SelectSeq(getNormalized(cookies), matches)

getAll(cookies) == getNormalized(cookies)

\* getByName: the first normalized cookie of that name, as a list of at
\* most one cookie (empty for undefined)
getByName(cookies, name) ==
  LET named(cookie) == cookie.name = name
      found == SelectSeq(getNormalized(cookies), named)
  IN IF Len(found) = 0 THEN <<>> ELSE <<found[1]>>

\* a read that normalizes the stored cookies in place
StoredAfterReadInPlace(cookies) == getNormalized(cookies)

\* this.cookies after a read: map and the object spread build new objects
StoredAfterRead(cookies) == cookies

ApiDomain == <<"a", ".">> \o TargetDomain
Localhost == <<"l", "o", "c", "a", "l", "h", "o", "s", "t">>

\* the cookie domains and target domains of the getByDomain calls explored
CookieDomains ==
  { NoDomain, <<>>, TargetDomain, <<".">> \o TargetDomain, <<"x", ".", "c", "o">>,
    OtherDomain, ApiDomain, <<".">> \o Localhost }

QueryDomains == { TargetDomain, ApiDomain, <<"o", "t", ".", "c", "o">>, Localhost }

SameSiteValues ==
  { NoSameSite, <<>>, <<"s", "t", "r", "i", "c", "t">>, <<"S", "t", "R", "i", "C", "t">>, <<"L", "a", "x">>, <<"N", "O", "N", "E">>,
    <<"n", "o", "_", "r", "e", "s", "t", "r", "i", "c", "t", "i", "o", "n">>, <<"N", "o", "_", "R", "e", "s", "t", "r", "i", "c", "t", "i", "o", "n">>, <<"u", "n", "s", "p", "e", "c", "i", "f", "i", "e", "d">> }

QueryNames == {"session", "missing"}

\* the cookies of the files explored: every domain, and every sameSite
CookieChoices ==
  {[name |-> "session", domain |-> d, sameSite |-> NoSameSite] : d \in CookieDomains}
    \cup {[name |-> "pref", domain |-> TargetDomain, sameSite |-> v] : v \in SameSiteValues}

CookieLists == UNION { [1..n -> CookieChoices] : n \in 0..MaxCookies }


\* ------------------------------------------------- inputs of run / runBatch
BaseUrls == {"https://ex.co", "ex.co"}

\* new URL(url) of run(): an absolute URL needs a scheme
isUrlValid(url) == url[1] = "https://ex.co"

RouteNames == {"home", "dash"}

PathOf(name) == IF name = "home" THEN "/" ELSE "/dash"

WaitChoices == {"", "[data-ready]"}

RouteThresholdChoices ==
  { NoThresholds, [NoThresholds EXCEPT !["performance"] = 75, !["seo"] = 0] }

GlobalThresholdChoices ==
  { NoThresholds,
    [c \in Categories |-> IF c = "performance" THEN 50 ELSE 80] }

AuthFileChoices == {Undefined, "", "./auth.json"}

RouteChoices ==
  [ name : RouteNames, authenticated : BOOLEAN, waitFor : WaitChoices,
    thresholds : RouteThresholdChoices ]

\* the options a caller hands to new LighthouseRunner, route apart
OptionChoices ==
  [ baseUrl : BaseUrls, authFile : AuthFileChoices,
    globalThresholds : GlobalThresholdChoices ]

\* the calls explored under Spec: run() reads authFile for an authenticated
\* route only, so a public route is explored with one authFile
CallChoices ==
  { c \in [opts : OptionChoices, route : RouteChoices] :
      ~c.route.authenticated => c.opts.authFile = "./auth.json" }

\* the routes and options of the batches explored under BatchSpec
BatchRouteChoices ==
  { [name |-> "home", authenticated |-> FALSE, waitFor |-> "", thresholds |-> NoThresholds],
    [name |-> "home", authenticated |-> TRUE, waitFor |-> "", thresholds |-> NoThresholds],
    [name |-> "dash", authenticated |-> FALSE, waitFor |-> "", thresholds |-> NoThresholds] }

\* the batches explored: an authenticated route followed by public routes
BatchRouteLists ==
  { rs \in [Runs -> BatchRouteChoices] :
      \A r \in Runs : rs[r].authenticated <=> (r = 1) }

BatchOptionChoices ==
  [ baseUrl : {"https://ex.co"}, authFile : {"./auth.json"},
    globalThresholds : {NoThresholds} ]

\* ------------------------------------------- outcomes of the collaborators
Statuses == {200, 399, 400, 404}

NavOutcomes ==
  { [type |-> "throws", status |-> 0], [type |-> "null", status |-> 0] }
    \cup { [type |-> "response", status |-> s] : s \in Statuses }

\* Scores are kept in ten-thousandths: 0.78 is 7800 and 78 is 780000.
ScoreUnit == 100 * 100

ScoresAllPass == [c \in Categories |-> 9000]
ScoresScale100 ==
  [c \in Categories |->
     CASE c = "performance" -> 780000 [] c = "accessibility" -> 920000
       [] c = "best-practices" -> 880000 [] OTHER -> 950000]
ScoresLowPerformance == [ScoresAllPass EXCEPT !["performance"] = 2000]
ScoresScale100ZeroPerformance == [ScoresScale100 EXCEPT !["performance"] = 0]
ScoresScale100LowSeo == [ScoresScale100 EXCEPT !["seo"] = ScoreUnit]
ScoresAtDefaults == [c \in Categories |-> IF c = "performance" THEN 2500 ELSE 5000]
ScoresMissingSeo == [ScoresAllPass EXCEPT !["seo"] = UndefinedNum]
ScoresNullPerformance == [ScoresAllPass EXCEPT !["performance"] = Null]

NoCategories == [c \in Categories |-> UndefinedNum]

EngineOutcomes ==
  { [type |-> "throws", hasCategories |-> FALSE, categories |-> NoCategories],
    [type |-> "empty", hasCategories |-> FALSE, categories |-> NoCategories],
    [type |-> "report", hasCategories |-> FALSE, categories |-> NoCategories] }
    \cup { [type |-> "report", hasCategories |-> TRUE, categories |-> sc] :
             sc \in { ScoresAllPass, ScoresScale100, ScoresLowPerformance,
                      ScoresMissingSeo, ScoresNullPerformance,
                      ScoresScale100ZeroPerformance, ScoresScale100LowSeo,
                      ScoresAtDefaults } }

\* the outcomes explored under BatchSpec
BatchNavOutcomes == { [type |-> "response", status |-> s] : s \in {200, 404} }

BatchEngineOutcomes ==
  { [type |-> "report", hasCategories |-> TRUE, categories |-> ScoresAllPass] }

\* ------------------------------------------------------------------- state
VARIABLES
  runner,         \* this.options of the LighthouseRunner of each run
  pc,             \* where each run() is suspended
  port,           \* the port getPort() gave to each run
  userDataDir,    \* the profile directory of each run
  ctx,            \* the browser context of each run: none / open / closed
  cookieArgs,     \* the argument of the addCookies call in flight
  pending,        \* what run() returns or rethrows once close() resolves
  settled,        \* the promise returned by run()
  calls,          \* how often each external step was called by each run
  deadlinePassed, \* the per-route deadline (config timeout) has elapsed
  batch,          \* the Promise.all of runBatch
  rng,            \* state of the Math.random() generator
  jar,            \* cookies stored in each profile directory
  engineArgs,     \* the arguments of the playAudit call of each run
  response,       \* what page.goto gave to each run
  report,         \* what playAudit gave to each run
  manager         \* a CookieManager: the file it loaded, its cookies, its last read

vars ==
  << runner, pc, port, userDataDir, ctx, cookieArgs, pending, settled,
     calls, deadlinePassed, batch, rng, jar, engineArgs, response, report,
     manager >>

Steps == {"getPort", "launch", "addCookies", "newPage", "goto", "waitFor", "playAudit", "close"}

NoError == [tags |-> <<>>, mentions |-> {}]
NoDir == <<"", 0>>
NoPending == [status |-> "none", value |-> NoError]
NoRunner ==
  [ baseUrl |-> "", authFile |-> Undefined, globalThresholds |-> NoThresholds,
    route |-> [name |-> "", authenticated |-> FALSE, waitFor |-> "",
               thresholds |-> NoThresholds] ]
NotSettled == [status |-> "pending", value |-> NoError]
NoResult ==
  [ routeName |-> "", url |-> <<"", "">>, scores |-> NoCategories,
    thresholds |-> NoThresholds, passed |-> FALSE ]
NoCalls == [s \in Steps |-> 0]
NoResponse == [type |-> "none", status |-> 0]
NoReport == [type |-> "none", hasCategories |-> FALSE, categories |-> NoCategories]
NoArgs == [port |-> 0, thresholds |-> NoThresholds, name |-> <<"", "">>]
NoBatch == [status |-> "idle", values |-> <<>>, remaining |-> 0, reason |-> NoError]
NoQuery == <<"?">>
NoManager ==
  [ file |-> <<>>, cookies |-> <<>>, read |-> "none", domain |-> NoQuery,
    name |-> "", result |-> <<>> ]

\* new LighthouseRunner({ ...options, route })
LighthouseRunner(opts, route) ==
  [ baseUrl |-> opts.baseUrl, authFile |-> opts.authFile,
    globalThresholds |-> opts.globalThresholds, route |-> route ]

\* new Error(message): the tags name the message templates, outermost first,
\* and mentions are the values interpolated into the text
MkError(tag, mentions) == [tags |-> <<tag>>, mentions |-> mentions]

\* new Error(`... ${error}`): the text of the cause is part of the new text
WrapError(tag, mentions, e) ==
  [tags |-> <<tag>> \o e.tags, mentions |-> mentions \cup e.mentions]

Url(r) == <<runner[r].baseUrl, PathOf(runner[r].route.name)>>

\* a string or undefined value used as a condition
Truthy(v) == v # Undefined /\ v # ""

\* validateThresholds: every value that is given is a number in 0..100
validateThresholds(thresholds) ==
  \A c \in Categories :
    thresholds[c] # UndefinedNum => (thresholds[c] >= 0 /\ thresholds[c] <= 100)

\* route.path.startsWith('/')
StartsWithSlash(path) == path \in {"/", "/dash"}

\* validateConfig: TRUE when it returns, FALSE when it throws
validateConfig(config) ==
  /\ Truthy(config.baseUrl)
  /\ isUrlValid(<<config.baseUrl, "">>)
  /\ Len(config.routes) > 0
  /\ \A i \in 1..Len(config.routes) :
       LET route == config.routes[i] IN
       /\ Truthy(route.name)
       /\ Truthy(PathOf(route.name))
       /\ StartsWithSlash(PathOf(route.name))
       /\ validateThresholds(route.thresholds)
  /\ validateThresholds(config.globalThresholds)

\* no run() has been called
IdleRuns ==
  /\ runner = [r \in Runs |-> NoRunner]
  /\ pc = [r \in Runs |-> "idle"]
  /\ port = [r \in Runs |-> 0]
  /\ userDataDir = [r \in Runs |-> NoDir]
  /\ ctx = [r \in Runs |-> "none"]
  /\ cookieArgs = [r \in Runs |-> <<>>]
  /\ pending = [r \in Runs |-> NoPending]
  /\ settled = [r \in Runs |-> NotSettled]
  /\ calls = [r \in Runs |-> NoCalls]
  /\ deadlinePassed = [r \in Runs |-> FALSE]
  /\ batch = NoBatch
  /\ rng = 1
  /\ jar = {}
  /\ engineArgs = [r \in Runs |-> NoArgs]
  /\ response = [r \in Runs |-> NoResponse]
  /\ report = [r \in Runs |-> NoReport]

Init ==
  /\ IdleRuns
  /\ manager = NoManager

\* a CookieManager that has loaded a cookie file
CookieInit ==
  /\ IdleRuns
  /\ manager \in {[NoManager EXCEPT !.file = cs, !.cookies = cs] : cs \in CookieLists}

\* a read operation of the manager is called and returns result
Read(op, domain, name, result) ==
  /\ manager' = [manager EXCEPT !.cookies = StoredAfterRead(manager.cookies),
                                !.read = op, !.domain = domain, !.name = name,
                                !.result = result]
  /\ UNCHANGED << runner, pc, port, userDataDir, ctx, cookieArgs, pending, settled,
                  calls, deadlinePassed, batch, rng, jar, engineArgs, response, report >>

GetNormalized == Read("getNormalized", NoQuery, "", getNormalized(manager.cookies))

GetAll == Read("getAll", NoQuery, "", getAll(manager.cookies))

AsPlaywrightCookies ==
  Read("asPlaywrightCookies", NoQuery, "", asPlaywrightCookies(manager.cookies))

GetByName(name) == Read("getByName", NoQuery, name, getByName(manager.cookies, name))

GetByDomain(domain) ==
  Read("getByDomain", domain, "", getByDomain(manager.cookies, domain))

\* --------------------------------------------------------------- Promise.all
\* a result list filled in completion order
PromiseAllStoreInCompletionOrder(values, i, v) ==
  LET free == {k \in DOMAIN values : values[k] = NoResult}
      first == CHOOSE k \in free : \A j \in free : k <= j
  IN IF free = {} THEN values ELSE [values EXCEPT ![first] = v]

\* the resolve-element function of Promise.all: the value of promise i goes
\* to slot i of the result list
PromiseAllStore(values, i, v) == [values EXCEPT ![i] = v]

\* the reaction of Promise.all to the settlement st of element i
PromiseAllReact(b, i, st) ==
  IF b.status = "idle" THEN b
  ELSE IF st.status = "rejected"
    THEN IF b.status = "pending"
           THEN [b EXCEPT !.status = "rejected", !.reason = st.value]
           ELSE b
    ELSE LET vals == PromiseAllStore(b.values, i, st.value)
             left == b.remaining - 1
         IN [b EXCEPT !.values = vals, !.remaining = left,
                      !.status = IF left = 0 /\ b.status = "pending"
                                   THEN "fulfilled" ELSE b.status]

\* run() of r settles with st: its locals are gone, and a Promise.all that
\* waits for it reacts
Settle(r, st) ==
  /\ settled' = [settled EXCEPT ![r] = st]
  /\ pc' = [pc EXCEPT ![r] = "done"]
  /\ port' = [port EXCEPT ![r] = 0]
  /\ userDataDir' = [userDataDir EXCEPT ![r] = NoDir]
  /\ batch' = PromiseAllReact(batch, r, st)

Fulfilled(v) == [status |-> "fulfilled", value |-> v]
Rejected(e) == [status |-> "rejected", value |-> e]

\* the outer catch of run(): log, then rethrow with the route name
OuterCatch(r, e) == WrapError("AuditFailedFor", {<<"route", runner[r].route.name>>}, e)

\* ------------------------------------------------------------- the run flow
\* a profile directory named after the route alone
UserDataDirNoRandom(name, random) == <<name, 0>>

\* path.join(os.tmpdir(), 'lh-audit', `route-${route.name}-${Math.random()}`)
UserDataDir(name, random) == <<name, random>>

IsActive(r) == pc[r] \notin {"idle", "done", "taken"}

\* ports on which an open context listens
BoundPorts == {port[r] : r \in {x \in Runs : ctx[x] = "open"}}

\* The ports get-port can hand out are those free for the operating system.
\* get-port keeps a handed-out port locked for 15 to 30 seconds only, and no
\* bound holds on the time between getPort() and the launch that binds the
\* port, so a port is protected only while a context listens on it.
AvailablePorts == Ports \ BoundPorts

\* run() up to its first await, the getPort() call
StartRun(r, opts, route) ==
  /\ runner' = [runner EXCEPT ![r] = LighthouseRunner(opts, route)]
  /\ pc' = [pc EXCEPT ![r] = "getPort"]
  /\ calls' = [calls EXCEPT ![r]["getPort"] = @ + 1]

\* a caller builds a runner and calls run(); the calls of one harness run
\* one after the other
run(r, opts, route) ==
  /\ pc[r] = "idle"
  /\ \A x \in Runs : x < r => pc[x] = "taken"
  /\ batch.status = "idle"
  /\ StartRun(r, opts, route)
  /\ UNCHANGED << port, userDataDir, ctx, cookieArgs, pending, settled,
                  deadlinePassed, batch, rng, jar, engineArgs, response, manager, report >>

\* the configurations and routes of the suites explored under SuiteSpec
ConfigChoices ==
  [ baseUrl : BaseUrls, authFile : AuthFileChoices, globalThresholds : {NoThresholds} ]

SuiteRouteChoices ==
  [ name : RouteNames, authenticated : BOOLEAN, waitFor : {""},
    thresholds : {NoThresholds} ]

\* a loadConfig that sets no defaults
loadConfigNoDefaults(config) == config

\* the defaults of loadConfig: config.authFile ??= './auth.json'
loadConfig(config) ==
  [config EXCEPT !.authFile = IF @ = Undefined THEN "./auth.json" ELSE @]

\* the test createLighthouseSuite registered for a route starts: the config
\* was validated and completed by loadConfig, the runner is built from it
\* and run() is called; the tests of one worker run one after the other
suiteTest(r, config, route) ==
  /\ pc[r] = "idle"
  /\ \A x \in Runs : x < r => pc[x] = "taken"
  /\ batch.status = "idle"
  /\ validateConfig([ baseUrl |-> config.baseUrl, routes |-> <<route>>,
                      globalThresholds |-> config.globalThresholds ])
  /\ StartRun(r, loadConfig(config), route)
  /\ UNCHANGED << port, userDataDir, ctx, cookieArgs, pending, settled,
                  deadlinePassed, batch, rng, jar, engineArgs, response, manager, report >>

\* the caller has taken the outcome of run(): the runner and its promise
\* are garbage
OutcomeTaken(r) ==
  /\ pc[r] = "done"
  /\ batch.status = "idle"
  /\ pc' = [pc EXCEPT ![r] = "taken"]
  /\ runner' = [runner EXCEPT ![r] = NoRunner]
  /\ settled' = [settled EXCEPT ![r] = NotSettled]
  /\ calls' = [calls EXCEPT ![r] = NoCalls]
  /\ pending' = [pending EXCEPT ![r] = NoPending]
  /\ cookieArgs' = [cookieArgs EXCEPT ![r] = <<>>]
  /\ deadlinePassed' = [deadlinePassed EXCEPT ![r] = FALSE]
  /\ ctx' = [ctx EXCEPT ![r] = "none"]
  /\ engineArgs' = [engineArgs EXCEPT ![r] = NoArgs]
  /\ response' = [response EXCEPT ![r] = NoResponse]
  /\ report' = [report EXCEPT ![r] = NoReport]
  /\ UNCHANGED << port, userDataDir, batch, rng, jar, manager >>

\* runBatch as it would be if it awaited each run before starting the next
runBatchFirstOnly(rs, opts) ==
  /\ batch.status = "idle"
  /\ \A r \in Runs : pc[r] = "idle"
  /\ runner' = [r \in Runs |-> LighthouseRunner(opts, rs[r])]
  /\ pc' = [r \in Runs |-> IF r = 1 THEN "getPort" ELSE "idle"]
  /\ calls' = [r \in Runs |-> IF r = 1 THEN [calls[r] EXCEPT !["getPort"] = @ + 1] ELSE calls[r]]
  /\ batch' = [status |-> "pending", values |-> [r \in Runs |-> NoResult],
               remaining |-> NumRoutes, reason |-> NoError]
  /\ UNCHANGED << port, userDataDir, ctx, cookieArgs, pending,
                  settled, deadlinePassed, rng, jar, engineArgs, response, manager, report >>

\* runBatch: routes.map starts run() of every route, each up to its first
\* await; Promise.all then waits for all of them
runBatch(rs, opts) ==
  /\ batch.status = "idle"
  /\ \A r \in Runs : pc[r] = "idle"
  /\ runner' = [r \in Runs |-> LighthouseRunner(opts, rs[r])]
  /\ pc' = [r \in Runs |-> "getPort"]
  /\ calls' = [r \in Runs |-> [calls[r] EXCEPT !["getPort"] = @ + 1]]
  /\ batch' = [status |-> "pending", values |-> [r \in Runs |-> NoResult],
               remaining |-> NumRoutes, reason |-> NoError]
  /\ UNCHANGED << port, userDataDir, ctx, cookieArgs, pending,
                  settled, deadlinePassed, rng, jar, engineArgs, response, manager, report >>


\* getPort() resolves with p: URL check, profile directory, launch call
GetPortResolves(r, p) ==
  /\ pc[r] = "getPort"
  /\ p \in AvailablePorts
  /\ IF ~isUrlValid(Url(r))
       THEN /\ Settle(r, Rejected(MkError("InvalidURL", {<<"url", Url(r)>>})))
            /\ UNCHANGED << rng, calls >>
       ELSE /\ port' = [port EXCEPT ![r] = p]
            /\ userDataDir' = [userDataDir EXCEPT ![r] = UserDataDir(runner[r].route.name, rng)]
            /\ rng' = rng + 1
            /\ calls' = [calls EXCEPT ![r]["launch"] = @ + 1]
            /\ pc' = [pc EXCEPT ![r] = "launch"]
            /\ UNCHANGED << settled, batch >>
  /\ UNCHANGED << runner, ctx, cookieArgs, pending, deadlinePassed, jar, engineArgs, response, manager, report >>

\* getPort() rejects: the rejection leaves run() as it is
GetPortRejects(r) ==
  /\ pc[r] = "getPort"
  /\ Settle(r, Rejected(MkError("NoPort", {})))
  /\ UNCHANGED << runner, ctx, cookieArgs, pending, calls, deadlinePassed, rng,
                  jar, engineArgs, response, manager, report >>

\* a throw inside the inner try: the catch calls context.close()
ThrowInside(r, e) ==
  /\ pending' = [pending EXCEPT ![r] = [status |-> "throw", value |-> e]]
  /\ pc' = [pc EXCEPT ![r] = "close"]
  /\ calls' = [calls EXCEPT ![r]["close"] = @ + 1]

ToPlaywrightCookie(c) ==
  [name |-> c.name, domain |-> DomainOrEmpty(c.domain), sameSite |-> c.sameSite]

\* the cookies run() hands to context.addCookies
InjectedCookies(cookies) ==
  LET rawCookies == asPlaywrightCookies(cookies)
  IN [i \in 1..Len(rawCookies) |-> ToPlaywrightCookie(rawCookies[i])]

\* launchPersistentContext resolves: the authentication block up to the
\* addCookies call, or the newPage call for a public route
LaunchResolves(r, fileState) ==
  /\ pc[r] = "launch"
  /\ ctx' = [ctx EXCEPT ![r] = "open"]
  /\ LET route == runner[r].route
         authFile == runner[r].authFile
     IN
     IF ~route.authenticated
       THEN /\ pc' = [pc EXCEPT ![r] = "newPage"]
            /\ calls' = [calls EXCEPT ![r]["newPage"] = @ + 1]
            /\ UNCHANGED << pending, cookieArgs >>
     ELSE IF ~Truthy(authFile)
       THEN /\ ThrowInside(r, MkError("NoAuthFile", {<<"route", route.name>>}))
            /\ UNCHANGED cookieArgs
     ELSE IF ~loadFromFile(fileState)
       THEN /\ ThrowInside(r, WrapError("AuthLoadFailed",
                                {<<"route", route.name>>, <<"authFile", authFile>>},
                                MkError("LoadCookies", {<<"authFile", authFile>>})))
            /\ UNCHANGED cookieArgs
     ELSE IF isEmpty(FileCookies(fileState))
       THEN /\ ThrowInside(r, MkError("NoCookies", {<<"authFile", authFile>>}))
            /\ UNCHANGED cookieArgs
     ELSE /\ cookieArgs' = [cookieArgs EXCEPT ![r] = InjectedCookies(FileCookies(fileState))]
          /\ pc' = [pc EXCEPT ![r] = "addCookies"]
          /\ calls' = [calls EXCEPT ![r]["addCookies"] = @ + 1]
          /\ UNCHANGED pending
  /\ UNCHANGED << runner, port, userDataDir, settled, deadlinePassed,
                  batch, rng, jar, engineArgs, response, manager, report >>

\* launchPersistentContext rejects: only the outer catch sees it
LaunchRejects(r) ==
  /\ pc[r] = "launch"
  /\ Settle(r, Rejected(OuterCatch(r, MkError("LaunchFailed", {}))))
  /\ UNCHANGED << runner, ctx, cookieArgs, pending, calls, deadlinePassed, rng,
                  jar, engineArgs, response, manager, report >>

\* context.addCookies settles
AddCookiesSettles(r, ok) ==
  /\ pc[r] = "addCookies"
  /\ IF ok
       THEN /\ jar' = jar \cup {<<userDataDir[r], c>> : c \in Range(cookieArgs[r])}
            /\ pc' = [pc EXCEPT ![r] = "newPage"]
            /\ calls' = [calls EXCEPT ![r]["newPage"] = @ + 1]
            /\ UNCHANGED pending
       ELSE /\ ThrowInside(r, MkError("AddCookiesFailed", {}))
            /\ UNCHANGED jar
  /\ UNCHANGED << runner, port, userDataDir, ctx, cookieArgs, settled,
                  deadlinePassed, batch, rng, engineArgs, response, manager, report >>

\* context.newPage settles; on success page.goto is called
NewPageSettles(r, ok) ==
  /\ pc[r] = "newPage"
  /\ IF ok
       THEN /\ pc' = [pc EXCEPT ![r] = "goto"]
            /\ calls' = [calls EXCEPT ![r]["goto"] = @ + 1]
            /\ UNCHANGED pending
       ELSE ThrowInside(r, MkError("NewPageFailed", {}))
  /\ UNCHANGED << runner, port, userDataDir, ctx, cookieArgs, settled,
                  deadlinePassed, batch, rng, jar, engineArgs, response, manager, report >>

\* the thresholds handed to playAudit
zeroThresholds == [c \in Categories |-> 0]

\* new Date().toISOString().split('T')[0]: the runs of the model all happen
\* on one day
Today == "2024-01-01"

\* the name of the report file: `${route.name}-${date}`
ReportName(name, date) == <<name, date>>

\* a playAudit call that hands the configured thresholds to the engine
CallPlayAuditWithThresholds(r) ==
  /\ engineArgs' = [engineArgs EXCEPT ![r] =
                       [port |-> port[r],
                        thresholds |-> getRouteThresholds(runner[r].globalThresholds,
                                                          runner[r].route.thresholds),
                        name |-> ReportName(runner[r].route.name, Today)]]
  /\ pc' = [pc EXCEPT ![r] = "playAudit"]
  /\ calls' = [calls EXCEPT ![r]["playAudit"] = @ + 1]

\* the playAudit call of run(): port, thresholds and report name
CallPlayAudit(r) ==
  /\ engineArgs' = [engineArgs EXCEPT ![r] =
                       [port |-> port[r], thresholds |-> zeroThresholds,
                        name |-> ReportName(runner[r].route.name, Today)]]
  /\ pc' = [pc EXCEPT ![r] = "playAudit"]
  /\ calls' = [calls EXCEPT ![r]["playAudit"] = @ + 1]

\* a status check that lets 400 through
StatusFailsAbove(status) == status > 400

\* the status check of the navigation block
StatusFails(status) == status >= 400

\* what the try block around page.goto throws, NoError when it passes
NavigationError(r, nav) ==
  IF nav.type = "throws" THEN MkError("GotoThrew", {})
  ELSE IF nav.type = "null" THEN MkError("NoResponse", {<<"url", Url(r)>>})
  ELSE IF StatusFails(nav.status)
    THEN MkError("HttpStatus", {<<"status", <<"", nav.status>> >>, <<"url", Url(r)>>})
  ELSE NoError

\* a navigation step that starts the engine without the selector wait
GotoSettlesSkipsWait(r, nav) ==
  /\ pc[r] = "goto"
  /\ response' = [response EXCEPT ![r] = nav]
  /\ LET navError == NavigationError(r, nav) IN
     IF navError # NoError
       THEN /\ ThrowInside(r, WrapError("FailedToNavigate", {<<"url", Url(r)>>}, navError))
            /\ UNCHANGED engineArgs
     ELSE /\ CallPlayAudit(r)
          /\ UNCHANGED pending
  /\ UNCHANGED << runner, port, userDataDir, ctx, cookieArgs, settled,
                  deadlinePassed, batch, rng, jar, manager, report >>

\* a navigation step that calls page.goto again when it threw
GotoSettlesRetries(r, nav) ==
  /\ pc[r] = "goto"
  /\ response' = [response EXCEPT ![r] = nav]
  /\ LET navError == NavigationError(r, nav) IN
     IF nav.type = "throws"
       THEN /\ calls' = [calls EXCEPT ![r]["goto"] = @ + 1]
            /\ UNCHANGED << pc, pending, engineArgs >>
     ELSE IF navError # NoError
       THEN /\ ThrowInside(r, WrapError("FailedToNavigate", {<<"url", Url(r)>>}, navError))
            /\ UNCHANGED engineArgs
     ELSE IF Truthy(runner[r].route.waitFor)
       THEN /\ pc' = [pc EXCEPT ![r] = "waitFor"]
            /\ calls' = [calls EXCEPT ![r]["waitFor"] = @ + 1]
            /\ UNCHANGED << pending, engineArgs >>
     ELSE /\ CallPlayAudit(r)
          /\ UNCHANGED pending
  /\ UNCHANGED << runner, port, userDataDir, ctx, cookieArgs, settled,
                  deadlinePassed, batch, rng, jar, manager, report >>

\* page.goto settles: response checks, then the selector wait or the audit
GotoSettles(r, nav) ==
  /\ pc[r] = "goto"
  /\ response' = [response EXCEPT ![r] = nav]
  /\ LET navError == NavigationError(r, nav) IN
     IF navError # NoError
       THEN /\ ThrowInside(r, WrapError("FailedToNavigate", {<<"url", Url(r)>>}, navError))
            /\ UNCHANGED engineArgs
     ELSE IF Truthy(runner[r].route.waitFor)
       THEN /\ pc' = [pc EXCEPT ![r] = "waitFor"]
            /\ calls' = [calls EXCEPT ![r]["waitFor"] = @ + 1]
            /\ UNCHANGED << pending, engineArgs >>
     ELSE /\ CallPlayAudit(r)
          /\ UNCHANGED pending
  /\ UNCHANGED << runner, port, userDataDir, ctx, cookieArgs, settled,
                  deadlinePassed, batch, rng, jar, manager, report >>

\* a selector failure reported as a navigation failure
SelectorErrorAsNavigation(r) ==
  WrapError("FailedToNavigate", {<<"url", Url(r)>>},
            MkError("SelectorNotFound", {<<"selector", runner[r].route.waitFor>>}))

\* the error thrown by the catch around page.waitForSelector
SelectorError(r) ==
  MkError("SelectorNotFound",
          {<<"selector", runner[r].route.waitFor>>, <<"url", Url(r)>>})

\* page.waitForSelector settles
WaitForSettles(r, found) ==
  /\ pc[r] = "waitFor"
  /\ IF found
       THEN /\ CallPlayAudit(r)
            /\ UNCHANGED pending
       ELSE /\ ThrowInside(r, SelectorError(r))
            /\ UNCHANGED engineArgs
  /\ UNCHANGED << runner, port, userDataDir, ctx, cookieArgs, settled,
                  deadlinePassed, batch, rng, jar, response, manager, report >>

\* Object.entries(scores).filter(value === undefined)
missingScores(scores) == {c \in Categories : scores[c] = UndefinedNum}

\* a normalization that divides whatever the scale is
NormalizeScoresAlways(scores) == [c \in Categories |-> ToNumber(scores[c]) \div 100]

\* a normalization that divides as soon as any category is above 1
NormalizeScoresAny(scores) ==
  IF \E c \in Categories : ToNumber(scores[c]) > ScoreUnit
    THEN [c \in Categories |-> ToNumber(scores[c]) \div 100]
    ELSE scores

\* the normalization block; null / 100 is 0 and null > 1 is false
NormalizeScores(scores) ==
  IF ToNumber(scores["performance"]) > ScoreUnit
    THEN [c \in Categories |-> ToNumber(scores[c]) \div 100]
    ELSE scores

\* a verdict that needs every score to exceed its threshold
PassedStrict(scores, thresholds) ==
  \A c \in Categories : ToNumber(scores[c]) * 100 > Coalesce(thresholds[c], 0) * ScoreUnit

\* scores[c] >= (thresholds[c] ?? 0) / 100 for every category
Passed(scores, thresholds) ==
  \A c \in Categories : ToNumber(scores[c]) * 100 >= Coalesce(thresholds[c], 0) * ScoreUnit

\* what run() does with the settled playAudit: the error thrown inside the
\* inner try, or the AuditResult
AuditOutcome(r, out) ==
  LET route == runner[r].route
      thresholds == getRouteThresholds(runner[r].globalThresholds, route.thresholds)
      rt == {<<"route", route.name>>}
  IN
  IF out.type = "throws"
    THEN [status |-> "throw", value |-> WrapError("LighthouseFailed", rt, MkError("EngineThrew", {}))]
  ELSE IF out.type = "empty"
    THEN [status |-> "throw", value |-> WrapError("LighthouseFailed", rt, MkError("EmptyReport", {}))]
  ELSE IF ~out.hasCategories
    THEN [status |-> "throw", value |-> MkError("NoCategories", rt)]
  ELSE IF missingScores(out.categories) # {}
    THEN [status |-> "throw",
          value |-> WrapError("ScoreExtraction", rt,
                      MkError("MissingScores",
                              {<<"missing", c>> : c \in missingScores(out.categories)}))]
  ELSE LET scores == NormalizeScores(out.categories) IN
       [status |-> "return",
        value |-> [routeName |-> route.name, url |-> Url(r), scores |-> scores,
                   thresholds |-> thresholds, passed |-> Passed(scores, thresholds)]]

\* playAudit settles: extraction, normalization, verdict, then close()
PlayAuditSettles(r, out) ==
  /\ pc[r] = "playAudit"
  /\ report' = [report EXCEPT ![r] = out]
  /\ pending' = [pending EXCEPT ![r] = AuditOutcome(r, out)]
  /\ pc' = [pc EXCEPT ![r] = "close"]
  /\ calls' = [calls EXCEPT ![r]["close"] = @ + 1]
  /\ UNCHANGED << runner, port, userDataDir, ctx, cookieArgs, settled,
                  deadlinePassed, batch, rng, jar, engineArgs, response, manager >>

\* what run() does once context.close() has resolved: return the result,
\* or rethrow into the outer catch
AfterClose(r) ==
  IF pending[r].status = "return"
    THEN Fulfilled(pending[r].value)
    ELSE Rejected(OuterCatch(r, pending[r].value))

\* context.close() as it would be if the inner catch rethrew without closing
CloseResolvesLeak(r) ==
  /\ pc[r] = "close"
  /\ ctx' = [ctx EXCEPT ![r] = IF pending[r].status = "throw" THEN @ ELSE "closed"]
  /\ Settle(r, AfterClose(r))
  /\ UNCHANGED << runner, cookieArgs, pending, calls, deadlinePassed, rng, jar,
                  engineArgs, response, manager, report >>

\* context.close() resolves
CloseResolves(r) ==
  /\ pc[r] = "close"
  /\ ctx' = [ctx EXCEPT ![r] = "closed"]
  /\ Settle(r, AfterClose(r))
  /\ UNCHANGED << runner, cookieArgs, pending, calls, deadlinePassed, rng, jar, engineArgs, response, manager, report >>

\* Math.round(score * 100)
RoundedPercent(score) == (ToNumber(score) + 50) \div 100

\* a colouring that is green only above the threshold
scoreToStringStrict(score, threshold) ==
  LET percentage == RoundedPercent(score) IN
  [ display |-> percentage,
    color |-> IF threshold = UndefinedNum THEN "plain"
              ELSE IF percentage > threshold THEN "green"
              ELSE IF percentage >= threshold - 10 THEN "yellow"
              ELSE "red" ]

\* Logger.scoreToString: the percentage shown and its colour
scoreToString(score, threshold) ==
  LET percentage == RoundedPercent(score) IN
  [ display |-> percentage,
    color |-> IF threshold = UndefinedNum THEN "plain"
              ELSE IF percentage >= threshold THEN "green"
              ELSE IF percentage >= threshold - 10 THEN "yellow"
              ELSE "red" ]

\* Logger.printRouteResult: the status line and the scores table
printRouteResult(result) ==
  [ status |-> IF result.passed THEN "PASS" ELSE "FAIL",
    routeName |-> result.routeName,
    scores |-> [c \in Categories |-> scoreToString(result.scores[c], result.thresholds[c])],
    thresholds |-> result.thresholds ]

\* the error the suite test throws for an outcome that did not pass
ThresholdsError(result) ==
  MkError("ThresholdsFailed",
          {<<"route", result.routeName>>}
            \cup {<<"score", <<c, RoundedPercent(result.scores[c])>> >> : c \in Categories}
            \cup {<<"threshold", <<c, result.thresholds[c]>> >> : c \in Categories})

\* a suite test that does not look at result.passed
SuiteTestIgnoresVerdict(r) ==
  IF settled[r].status = "rejected"
    THEN [status |-> "failed", error |-> settled[r].value]
    ELSE [status |-> "passed", error |-> NoError]

\* the test createLighthouseSuite registers for a route, from the point
\* where run() has settled: printRouteResult does not throw, an outcome
\* that did not pass is turned into an Error, and the catch rethrows any
\* Error as it is
SuiteTest(r) ==
  IF settled[r].status = "rejected"
    THEN [status |-> "failed", error |-> settled[r].value]
  ELSE IF ~settled[r].value.passed
    THEN [status |-> "failed", error |-> ThresholdsError(settled[r].value)]
  ELSE [status |-> "passed", error |-> NoError]

\* the steps of run() the per-route deadline is meant to bound
DeadlineSteps == {"goto", "waitFor", "playAudit"}

\* the deadline of a route (config.timeout, set by loadConfig) elapses
\* while its flow is still waiting; no code is registered on it
DeadlineElapses(r) ==
  /\ pc[r] \in DeadlineSteps
  /\ ~deadlinePassed[r]
  /\ deadlinePassed' = [deadlinePassed EXCEPT ![r] = TRUE]
  /\ UNCHANGED << runner, pc, port, userDataDir, ctx, cookieArgs, pending,
                  settled, calls, batch, rng, jar, engineArgs, response, manager, report >>

\* ---------------------------------------------------------- specifications
\* Spec: a harness that calls run() for one route after the other, with
\* every input and every outcome of the collaborators.
Next ==
  \/ \E r \in Runs, c \in CallChoices : run(r, c.opts, c.route)
  \/ \E r \in Runs : OutcomeTaken(r)
  \/ \E r \in Runs, p \in Ports : GetPortResolves(r, p)
  \/ \E r \in Runs : GetPortRejects(r)
  \/ \E r \in Runs, fileState \in FileStates : LaunchResolves(r, fileState)
  \/ \E r \in Runs : LaunchRejects(r)
  \/ \E r \in Runs, ok \in BOOLEAN : AddCookiesSettles(r, ok)
  \/ \E r \in Runs, ok \in BOOLEAN : NewPageSettles(r, ok)
  \/ \E r \in Runs, nav \in NavOutcomes : GotoSettles(r, nav)
  \/ \E r \in Runs, found \in BOOLEAN : WaitForSettles(r, found)
  \/ \E r \in Runs, out \in EngineOutcomes : PlayAuditSettles(r, out)
  \/ \E r \in Runs : CloseResolves(r)
  \/ \E r \in Runs : DeadlineElapses(r)

Spec == Init /\ [][Next]_vars

\* BatchSpec: one runBatch call, all its runs interleaved.
BatchNext ==
  \/ \E rs \in BatchRouteLists, opts \in BatchOptionChoices : runBatch(rs, opts)
  \/ \E r \in Runs, p \in Ports : GetPortResolves(r, p)
  \/ \E r \in Runs : LaunchResolves(r, "cookies")
  \/ \E r \in Runs : AddCookiesSettles(r, TRUE)
  \/ \E r \in Runs : NewPageSettles(r, TRUE)
  \/ \E r \in Runs, nav \in BatchNavOutcomes : GotoSettles(r, nav)
  \/ \E r \in Runs, out \in BatchEngineOutcomes : PlayAuditSettles(r, out)
  \/ \E r \in Runs : CloseResolves(r)

BatchSpec == Init /\ [][BatchNext]_vars

\* SuiteSpec: the tests of a suite made by createLighthouseSuite.
SuiteNext ==
  \/ \E r \in Runs, config \in ConfigChoices, route \in SuiteRouteChoices :
       suiteTest(r, config, route)
  \/ \E r \in Runs : OutcomeTaken(r)
  \/ \E r \in Runs, p \in Ports : GetPortResolves(r, p)
  \/ \E r \in Runs, fileState \in FileStates : LaunchResolves(r, fileState)
  \/ \E r \in Runs : AddCookiesSettles(r, TRUE)
  \/ \E r \in Runs : NewPageSettles(r, TRUE)
  \/ \E r \in Runs, nav \in BatchNavOutcomes : GotoSettles(r, nav)
  \/ \E r \in Runs, out \in BatchEngineOutcomes : PlayAuditSettles(r, out)
  \/ \E r \in Runs : CloseResolves(r)

SuiteSpec == Init /\ [][SuiteNext]_vars

\* CookieSpec: reads of a loaded CookieManager.
CookieNext ==
  \/ \E domain \in QueryDomains : GetByDomain(domain)
  \/ \E name \in QueryNames : GetByName(name)
  \/ GetNormalized
  \/ GetAll
  \/ AsPlaywrightCookies

CookieSpec == CookieInit /\ [][CookieNext]_vars


\* ------------------------------------------------------------------ claims
HasTag(e, tag) == tag \in Range(e.tags)

\* the error run() of r is throwing or has thrown, NoError when there is none
CurrentError(r) ==
  IF pc[r] = "close" /\ pending[r].status = "throw" THEN pending[r].value
  ELSE IF pc[r] = "done" /\ settled[r].status = "rejected" THEN settled[r].value
  ELSE NoError

VisibleCookies(r) == {c \in Range(StoredCookies) \cup Range(InjectedCookies(StoredCookies)) :
                        <<userDataDir[r], c>> \in jar}

ActiveRuns == {r \in Runs : IsActive(r)}

\* C1: a context that run() launched is closed exactly once by the time
\* run() has returned or thrown, and close() is never called a second time.
C1_ContextClosedOnce ==
  \A r \in Runs :
    /\ calls[r]["close"] <= 1
    /\ ctx[r] = "open" => IsActive(r)
    /\ (pc[r] = "done" /\ ctx[r] # "none") => (ctx[r] = "closed" /\ calls[r]["close"] = 1)
    /\ (pc[r] = "done" /\ ctx[r] = "none") => calls[r]["close"] = 0

C1_Witness ==
  \E r \in Runs :
    /\ pc[r] = "done"
    /\ settled[r].status = "rejected"
    /\ HasTag(settled[r].value, "SelectorNotFound")
    /\ ctx[r] = "closed"

\* C2: once the deadline of a route has passed, its flow is no longer
\* waiting for navigation, selector or engine with its context open.
C2_DeadlineAbortsFlow ==
  \A r \in Runs :
    deadlinePassed[r] => ~(pc[r] \in DeadlineSteps /\ ctx[r] = "open")

\* C3: when every flow of a batch has ended, the outcome of every route
\* that succeeded has been delivered to the caller of runBatch.
C3_SiblingOutcomesDelivered ==
  (batch.status # "idle" /\ \A r \in Runs : pc[r] = "done") =>
    \A r \in Runs :
      settled[r].status = "fulfilled" =>
        (batch.status = "fulfilled" /\ batch.values[r] = settled[r].value)

\* C4: the ports held by two active runs are distinct.
C4_PortsDistinct ==
  \A r1, r2 \in Runs :
    (r1 # r2 /\ IsActive(r1) /\ IsActive(r2) /\ port[r1] # 0 /\ port[r2] # 0)
      => port[r1] # port[r2]

\* C5 as claimed: without a pool size the batch is sequential, at most one
\* flow is active at a time.
C5_SequentialByDefault == Cardinality(ActiveRuns) <= 1

\* C5 as amended: runBatch starts the flow of every route when it is called;
\* no route waits for another one to finish.
C5_AllFlowsStartedAtOnce ==
  batch.status # "idle" => \A r \in Runs : pc[r] # "idle"

C5_Witness == \A r \in Runs : ctx[r] = "open"

\* C6: a fulfilled batch holds, at index i, the result of route i.
C6_OutcomesInRouteOrder ==
  batch.status = "fulfilled" =>
    \A i \in Runs :
      /\ batch.values[i].routeName = runner[i].route.name
      /\ batch.values[i] = settled[i].value

C6_Witness ==
  /\ batch.status = "fulfilled"
  /\ \E i, j \in Runs : runner[i].route.name # runner[j].route.name

\* C7: two open contexts never use the same profile directory, and the
\* cookies in the profile of an open context are those its own run injected.
C7_SessionsIsolated ==
  \A r1 \in Runs :
    ctx[r1] = "open" =>
      /\ \A r2 \in Runs : (r2 # r1 /\ ctx[r2] = "open") => userDataDir[r1] # userDataDir[r2]
      /\ VisibleCookies(r1) \subseteq Range(cookieArgs[r1])

C7_Witness ==
  \E r1, r2 \in Runs :
    /\ r1 # r2
    /\ ctx[r1] = "open" /\ ctx[r2] = "open"
    /\ runner[r1].route.name = runner[r2].route.name
    /\ VisibleCookies(r1) # {}
    /\ ~runner[r2].route.authenticated

\* C8: every cookie in the profile of a session matches the target domain.
C8_OnlyMatchingCookiesInjected ==
  \A entry \in jar : DomainMatches(entry[2].domain, TargetDomain)

\* C9: an authenticated route without authFile fails with the authFile
\* error; the authentication errors are raised before any cookie is added
\* and before any navigation; an authenticated route navigates only after
\* a non-empty set of cookies was added; the authFile error and the
\* no-cookies error are never the same error.
AuthTags == {"NoAuthFile", "LoadCookies", "NoCookies"}

C9_AuthFailsBeforeInjection ==
  \A r \in Runs :
    LET e == CurrentError(r) IN
    /\ (runner[r].route.authenticated /\ ~Truthy(runner[r].authFile)
          /\ pc[r] = "done" /\ ctx[r] # "none")
         => (settled[r].status = "rejected" /\ HasTag(settled[r].value, "NoAuthFile"))
    /\ (\E t \in AuthTags : HasTag(e, t))
         => /\ calls[r]["addCookies"] = 0
            /\ calls[r]["newPage"] = 0
            /\ calls[r]["goto"] = 0
            /\ userDataDir[r] # NoDir => VisibleCookies(r) = {}
    /\ (runner[r].route.authenticated /\ calls[r]["goto"] > 0)
         => (calls[r]["addCookies"] = 1 /\ Len(cookieArgs[r]) > 0)
    /\ ~(HasTag(e, "NoAuthFile") /\ HasTag(e, "NoCookies"))
    /\ HasTag(e, "NoAuthFile") => ~Truthy(runner[r].authFile)
    /\ HasTag(e, "NoCookies") => Truthy(runner[r].authFile)

C9_Witness ==
  \E r \in Runs :
    /\ pc[r] = "done"
    /\ runner[r].route.authenticated
    /\ runner[r].authFile = Undefined
    /\ HasTag(settled[r].value, "NoAuthFile")

\* C10: after a navigation that threw, gave no response or gave a status of
\* 400 or more, the engine is never invoked and run() ends rejected with
\* the navigation error, which carries the URL and, if there is one, the
\* status.
NavigationFailed(r) ==
  \/ response[r].type \in {"throws", "null"}
  \/ (response[r].type = "response" /\ response[r].status >= 400)

C10_NavigationFailureStopsRun ==
  \A r \in Runs :
    NavigationFailed(r) =>
      LET e == CurrentError(r) IN
      /\ calls[r]["playAudit"] = 0
      /\ calls[r]["waitFor"] = 0
      /\ pc[r] \in {"close", "done"}
      /\ HasTag(e, "FailedToNavigate")
      /\ <<"url", Url(r)>> \in e.mentions
      /\ response[r].type = "response" => <<"status", <<"", response[r].status>> >> \in e.mentions

C10_Witness ==
  \E r \in Runs :
    /\ pc[r] = "done"
    /\ response[r] = [type |-> "response", status |-> 404]
    /\ settled[r].status = "rejected"

\* C11: a run whose selector wait ended without the engine being invoked is
\* failing with the selector error; the selector error is not a navigation
\* error, it names the selector, and it occurs only for a route with waitFor,
\* after a navigation that gave a response with a status below 400, and
\* with the engine never invoked.
C11_SelectorTimeoutDistinct ==
  \A r \in Runs :
    LET e == CurrentError(r) IN
    /\ (calls[r]["waitFor"] = 1 /\ pc[r] \in {"close", "done"} /\ calls[r]["playAudit"] = 0)
         => HasTag(e, "SelectorNotFound")
    /\ HasTag(e, "SelectorNotFound")
         => /\ ~HasTag(e, "FailedToNavigate")
            /\ runner[r].route.waitFor \notin {"", Undefined}
            /\ <<"selector", runner[r].route.waitFor>> \in e.mentions
            /\ calls[r]["waitFor"] = 1
            /\ response[r].type = "response" /\ response[r].status < 400
            /\ calls[r]["playAudit"] = 0

C11_Witness ==
  \E r \in Runs :
    /\ pc[r] = "done"
    /\ settled[r].status = "rejected"
    /\ HasTag(settled[r].value, "SelectorNotFound")
    /\ response[r] = [type |-> "response", status |-> 399]
    /\ calls[r]["playAudit"] = 0

\* C12: every playAudit call was handed the threshold 0 for each of the
\* four categories, whatever thresholds the route and the options carry.
C12_EngineGetsZeroThresholds ==
  \A r \in Runs :
    calls[r]["playAudit"] > 0 =>
      \A c \in Categories : engineArgs[r].thresholds[c] = 0

C12_Witness ==
  \E r \in Runs :
    /\ pc[r] = "playAudit"
    /\ runner[r].route.thresholds["performance"] = 75
    /\ runner[r].globalThresholds["seo"] = 80
    /\ engineArgs[r].thresholds["performance"] = 0

\* C13: a run that fails after the engine was invoked fails because the
\* engine threw or its report lacks scores, never because of the verdict;
\* a report with four scores gives an outcome, passed or not; the suite
\* test fails exactly when run() threw or the outcome has passed = FALSE,
\* with the error of run() or an error naming the route, scores and thresholds.
EngineFailureTags == {"EngineThrew", "EmptyReport", "NoCategories", "MissingScores"}

C13_VerdictIsAnOutcome ==
  \A r \in Runs :
    /\ (calls[r]["playAudit"] = 1 /\ CurrentError(r) # NoError)
         => \E t \in EngineFailureTags : HasTag(CurrentError(r), t)
    /\ pc[r] = "done" =>
         LET test == SuiteTest(r)
             threw == settled[r].status = "rejected"
             missed == settled[r].status = "fulfilled" /\ ~settled[r].value.passed
         IN /\ (test.status = "failed") <=> (threw \/ missed)
            /\ (test.status = "passed") <=> ~(threw \/ missed)
            /\ threw => test.error = settled[r].value
            /\ missed => /\ HasTag(test.error, "ThresholdsFailed")
                          /\ <<"route", runner[r].route.name>> \in test.error.mentions
            /\ test.status = "failed" => test.error # NoError

C13_Witness ==
  \E r \in Runs :
    /\ pc[r] = "done"
    /\ settled[r].status = "fulfilled"
    /\ ~settled[r].value.passed
    /\ SuiteTest(r).status = "failed"

\* C14: every outcome run() returns has a number as the score of each of
\* the four categories: a report that lacks a score gives no outcome.
C14_AbsentScoreIsNoOutcome ==
  \A r \in Runs :
    (pc[r] = "done" /\ settled[r].status = "fulfilled") =>
      \A c \in Categories : settled[r].value.scores[c] \notin {UndefinedNum, Null}

\* C15: in every outcome run() returns, each score lies between 0 and 1.
C15_ScoresInUnitRange ==
  \A r \in Runs :
    (pc[r] = "done" /\ settled[r].status = "fulfilled") =>
      \A c \in Categories :
        LET score == settled[r].value.scores[c] IN
        score \notin {UndefinedNum, Null} => (0 <= score /\ score <= ScoreUnit)

\* C16: for an outcome whose four scores are numbers, passed is TRUE iff
\* every score, taken as a percentage, is at least the threshold of its
\* category in the outcome.
C16_PassedIffAllAtLeast ==
  \A r \in Runs :
    (pc[r] = "done" /\ settled[r].status = "fulfilled"
       /\ \A c \in Categories : settled[r].value.scores[c] \notin {UndefinedNum, Null}) =>
      LET result == settled[r].value
          below == {c \in Categories : result.scores[c] * 100 < result.thresholds[c] * ScoreUnit}
      IN result.passed <=> (below = {})

C16_Witness ==
  \E r \in Runs :
    /\ pc[r] = "done"
    /\ settled[r].status = "fulfilled"
    /\ settled[r].value.passed
    /\ \A c \in Categories :
         settled[r].value.scores[c] * 100 = settled[r].value.thresholds[c] * ScoreUnit

\* C17: the thresholds of an outcome are, for each category, the value of
\* the route when the route gives one (0 included), else the global value
\* when the options give one, else 25 for performance and 50 for the others.
C17_ThresholdPrecedence ==
  \A r \in Runs :
    (pc[r] = "done" /\ settled[r].status = "fulfilled") =>
      \A c \in Categories :
        LET perRoute == runner[r].route.thresholds[c]
            global == runner[r].globalThresholds[c]
            effective == settled[r].value.thresholds[c]
        IN /\ perRoute >= 0 => effective = perRoute
           /\ (perRoute < 0 /\ global >= 0) => effective = global
           /\ (perRoute < 0 /\ global < 0) =>
                effective = (IF c = "performance" THEN 25 ELSE 50)

C17_Witness ==
  \E r \in Runs :
    /\ pc[r] = "done"
    /\ settled[r].status = "fulfilled"
    /\ runner[r].globalThresholds["seo"] = 80
    /\ settled[r].value.thresholds["seo"] = 0
    /\ settled[r].value.thresholds["performance"] = 75
    /\ settled[r].value.thresholds["accessibility"] = 80

\* C18: of the stored cookies that have a domain, getByDomain(t) returns
\* exactly those whose domain d is t, or "." followed by t, or a suffix of t.
IsSuffixOf(d, t) ==
  \E k \in 0..Len(t) :
    /\ Len(d) = Len(t) - k
    /\ \A i \in 1..Len(d) : d[i] = t[k + i]

C18_GetByDomainMatches ==
  manager.domain # NoQuery =>
    LET t == manager.domain
        stored == manager.cookies
        expected == { i \in 1..Len(stored) :
                        /\ stored[i].domain # NoDomain
                        /\ \/ stored[i].domain = t
                           \/ stored[i].domain = <<".">> \o t
                           \/ IsSuffixOf(stored[i].domain, t) }
        hasDomain(c) == c.domain # NoDomain
        returned == SelectSeq(manager.result, hasDomain)
    IN /\ Len(returned) = Cardinality(expected)
       /\ {c.domain : c \in Range(returned)} = {stored[i].domain : i \in expected}

C18_Witness ==
  /\ manager.domain = <<"o", "t", ".", "c", "o">>
  /\ Len(manager.cookies) = 2
  /\ Len(manager.result) = 1
  /\ manager.result[1].domain = OtherDomain

\* C19: the routes of an accepted configuration have different names, so
\* two runs of one batch never hand the same report name to the engine.
BatchConfig ==
  [ baseUrl |-> runner[1].baseUrl,
    globalThresholds |-> runner[1].globalThresholds,
    routes |-> [r \in Runs |-> runner[r].route] ]

C19_ReportKeysDistinct ==
  (batch.status # "idle" /\ validateConfig(BatchConfig)) =>
    \A r1, r2 \in Runs :
      (r1 # r2 /\ calls[r1]["playAudit"] = 1 /\ calls[r2]["playAudit"] = 1)
        => engineArgs[r1].name # engineArgs[r2].name

\* C22: every cookie a read operation returns has sameSite Strict, Lax or
\* None: strict, lax, none and no_restriction in any letter case give
\* Strict, Lax, None and None, and any other or absent value gives Lax.
EqualsIgnoringCase(s, lower, upper) ==
  /\ Len(s) = Len(lower)
  /\ \A i \in 1..Len(s) : s[i] = lower[i] \/ s[i] = upper[i]

ExpectedSameSite(raw) ==
  IF raw = NoSameSite THEN <<"L", "a", "x">>
  ELSE IF EqualsIgnoringCase(raw, <<"s", "t", "r", "i", "c", "t">>, <<"S", "T", "R", "I", "C", "T">>) THEN <<"S", "t", "r", "i", "c", "t">>
  ELSE IF EqualsIgnoringCase(raw, <<"l", "a", "x">>, <<"L", "A", "X">>) THEN <<"L", "a", "x">>
  ELSE IF EqualsIgnoringCase(raw, <<"n", "o", "n", "e">>, <<"N", "O", "N", "E">>) THEN <<"N", "o", "n", "e">>
  ELSE IF EqualsIgnoringCase(raw, <<"n", "o", "_", "r", "e", "s", "t", "r", "i", "c", "t", "i", "o", "n">>,
                             <<"N", "O", "_", "R", "E", "S", "T", "R", "I", "C", "T", "I", "O", "N">>) THEN <<"N", "o", "n", "e">>
  ELSE <<"L", "a", "x">>

C22_SameSiteNormalized ==
  manager.read # "none" =>
    /\ \A c \in Range(manager.result) : c.sameSite \in {<<"S", "t", "r", "i", "c", "t">>, <<"L", "a", "x">>, <<"N", "o", "n", "e">>}
    /\ manager.read \in {"getNormalized", "getAll", "asPlaywrightCookies"} =>
         /\ Len(manager.result) = Len(manager.file)
         /\ \A i \in 1..Len(manager.file) :
              manager.result[i].sameSite = ExpectedSameSite(manager.file[i].sameSite)
    /\ \A c \in Range(manager.result) :
         \E i \in 1..Len(manager.file) :
           /\ manager.file[i].name = c.name
           /\ manager.file[i].domain = c.domain
           /\ c.sameSite = ExpectedSameSite(manager.file[i].sameSite)

C22_Witness ==
  /\ manager.read = "getNormalized"
  /\ Len(manager.result) = 2
  /\ manager.file[1].sameSite = <<"S", "t", "R", "i", "C", "t">>
  /\ manager.result[1].sameSite = <<"S", "t", "r", "i", "c", "t">>
  /\ manager.file[2].sameSite = <<"N", "o", "_", "R", "e", "s", "t", "r", "i", "c", "t", "i", "o", "n">>
  /\ manager.result[2].sameSite = <<"N", "o", "n", "e">>

\* C23: getByDomain does not return a cookie stored for the parent domain
\* without leading dot when the target is a subdomain, nor a cookie stored
\* for ".localhost" when the target is "localhost", nor a cookie stored for
\* another domain.
C23_DocumentedMismatchesRejected ==
  manager.read = "getByDomain" =>
    \A c \in Range(manager.result) :
      /\ ~(manager.domain = ApiDomain /\ c.domain = TargetDomain)
      /\ ~(manager.domain = Localhost /\ c.domain = <<".">> \o Localhost)
      /\ ~(manager.domain = TargetDomain /\ c.domain = OtherDomain)

\* C27: after any sequence of reads the stored cookies are the cookies of
\* the loaded file, raw sameSite values included, and count() and isEmpty()
\* are what they were after the load.
C27_ReadsLeaveStoreUnchanged ==
  /\ manager.cookies = manager.file
  /\ Len(manager.cookies) = Len(manager.file)
  /\ (Len(manager.cookies) = 0) <=> (Len(manager.file) = 0)

C27_Witness ==
  /\ manager.read = "getByName"
  /\ Len(manager.result) = 1
  /\ manager.result[1].sameSite = <<"L", "a", "x">>
  /\ \E i \in 1..Len(manager.cookies) :
       manager.cookies[i].name = manager.name /\ manager.cookies[i].sameSite = NoSameSite

\* C28: getByDomain(t) returns every stored cookie whose domain is empty or
\* absent, whatever t is.
WithoutDomain(cookies) == {i \in 1..Len(cookies) : cookies[i].domain \in {NoDomain, <<>>}}

C28_NoDomainAlwaysReturned ==
  manager.read = "getByDomain" =>
    /\ Cardinality(WithoutDomain(manager.result)) = Cardinality(WithoutDomain(manager.file))
    /\ \A i \in WithoutDomain(manager.file) :
         \E k \in 1..Len(manager.result) : manager.result[k].domain = manager.file[i].domain

C28_Witness ==
  /\ manager.read = "getByDomain"
  /\ manager.domain = Localhost
  /\ Len(manager.file) = 2
  /\ manager.file[1].domain = NoDomain
  /\ manager.file[2].domain = <<>>
  /\ Len(manager.result) = 2

\* C21: an outcome made from a report whose four scores are between 0 and 1
\* carries the scores of the report unchanged, and normalizing the scores
\* of any outcome once more gives the same scores.
C21_NormalizationIdempotent ==
  \A r \in Runs :
    (pc[r] = "done" /\ settled[r].status = "fulfilled") =>
      LET scores == settled[r].value.scores
          raw == report[r].categories
      IN /\ (\A c \in Categories : 0 <= raw[c] /\ raw[c] <= ScoreUnit) => scores = raw
         /\ NormalizeScores(scores) = scores

C21_Witness ==
  \E r \in Runs :
    /\ pc[r] = "done"
    /\ settled[r].status = "fulfilled"
    /\ report[r].categories["performance"] = 78 * ScoreUnit
    /\ settled[r].value.scores["performance"] = 7800
    /\ settled[r].value.scores["seo"] = 9500

\* C25: the scores of an outcome are the scores of the report divided by
\* 100, all four of them, when the performance score of the report is above
\* 1, and the scores of the report unchanged otherwise, whatever the other
\* three scores are.
C25_PerformanceDecidesScale ==
  \A r \in Runs :
    (pc[r] = "done" /\ settled[r].status = "fulfilled") =>
      LET scores == settled[r].value.scores
          raw == report[r].categories
      IN IF raw["performance"] > ScoreUnit
           THEN \A c \in Categories : scores[c] * 100 = raw[c]
           ELSE \A c \in Categories : scores[c] = raw[c]

C25_Witness ==
  \E r \in Runs :
    /\ pc[r] = "done"
    /\ settled[r].status = "fulfilled"
    /\ report[r].categories["performance"] = 0
    /\ report[r].categories["accessibility"] = 92 * ScoreUnit
    /\ settled[r].value.scores["accessibility"] = 92 * ScoreUnit

\* C24: the steps of a run happen in the order launch, cookie injection
\* (authenticated routes only), page and navigation, selector wait (when
\* configured), engine, verdict, close: each step has been called only when
\* the steps before it are complete; the engine is called only after a
\* response with a status below 400 and after the configured wait; the
\* cookies are in the profile before navigation starts.
ResponseOk(r) == response[r].type = "response" /\ response[r].status < 400

C24_StepsInOrder ==
  \A r \in Runs :
    LET k == calls[r]
        route == runner[r].route
    IN /\ k["launch"] > 0 => k["getPort"] = 1
       /\ ctx[r] # "none" => k["launch"] = 1
       /\ k["addCookies"] > 0 => (route.authenticated /\ ctx[r] # "none")
       /\ k["newPage"] > 0 =>
            /\ ctx[r] # "none"
            /\ route.authenticated <=> k["addCookies"] = 1
            /\ pc[r] # "addCookies"
       /\ k["goto"] > 0 =>
            /\ k["newPage"] = 1 /\ pc[r] # "newPage"
            /\ (route.authenticated /\ IsActive(r)) =>
                 /\ Len(cookieArgs[r]) > 0
                 /\ \A c \in Range(cookieArgs[r]) : <<userDataDir[r], c>> \in jar
       /\ k["waitFor"] > 0 =>
            (k["goto"] = 1 /\ ResponseOk(r) /\ route.waitFor \notin {"", Undefined})
       /\ k["playAudit"] > 0 =>
            /\ k["goto"] = 1 /\ ResponseOk(r)
            /\ route.waitFor \notin {"", Undefined} =>
                 /\ k["waitFor"] = 1 /\ pc[r] # "waitFor"
                 /\ ~HasTag(CurrentError(r), "SelectorNotFound")
       /\ pending[r].status = "return" =>
            (k["playAudit"] = 1 /\ report[r].type = "report" /\ pc[r] \in {"close", "done"})
       /\ k["close"] > 0 =>
            (ctx[r] # "none" /\ pending[r].status # "none" /\ pc[r] \in {"close", "done"})
       /\ ctx[r] = "closed" => k["close"] = 1
       /\ (pc[r] = "done" /\ settled[r].status = "fulfilled") =>
            (ctx[r] = "closed" /\ k["playAudit"] = 1)

C24_Witness ==
  \E r \in Runs :
    /\ pc[r] = "done"
    /\ settled[r].status = "fulfilled"
    /\ runner[r].route.authenticated
    /\ runner[r].route.waitFor = "[data-ready]"
    /\ \A s \in Steps : calls[r][s] = 1

\* C26: no step of a run is called a second time; a step that failed has
\* left the run failing with the error of that step, nothing else is in
\* flight, and the run ends rejected with that error.
C26_NoRetry ==
  \A r \in Runs :
    /\ \A s \in Steps : calls[r][s] <= 1
    /\ pending[r].status = "throw" => pc[r] \in {"close", "done"}
    /\ NavigationFailed(r) => HasTag(CurrentError(r), "FailedToNavigate")
    /\ report[r].type = "throws" => HasTag(CurrentError(r), "EngineThrew")
    /\ (calls[r]["addCookies"] = 1 /\ pc[r] \in {"close", "done"} /\ calls[r]["newPage"] = 0)
         => HasTag(CurrentError(r), "AddCookiesFailed")
    /\ (calls[r]["launch"] = 1 /\ pc[r] = "done" /\ ctx[r] = "none")
         => HasTag(CurrentError(r), "LaunchFailed")
    /\ (pc[r] = "done" /\ pending[r].status = "throw") =>
         /\ settled[r].status = "rejected"
         /\ Range(pending[r].value.tags) \subseteq Range(settled[r].value.tags)

C26_Witness ==
  \E r \in Runs :
    /\ pc[r] = "done"
    /\ response[r].type = "throws"
    /\ calls[r]["goto"] = 1
    /\ calls[r]["playAudit"] = 0
    /\ settled[r].status = "rejected"
    /\ HasTag(settled[r].value, "GotoThrew")

====
